---- MODULE Spec2Model ----
(***************************************************************************)
(* BabyMonitorProtocol.activate (src/kaamiki/protocols.py): the polling,   *)
(* change-detection and resilience loop of the activity tracker.           *)
(*                                                                         *)
(* Time is a discrete non-decreasing clock read by now().  Every call into *)
(* the platform (the window and URL inspection, the CSV write) may take    *)
(* 0..MaxDelay ticks; time.sleep(refresh) takes Refresh ticks and the      *)
(* time.sleep(5.0) of the finally clause takes CooldownPeriod ticks.       *)
(*                                                                         *)
(* What a step hands to its collaborators (the row given to the CSV        *)
(* writer, the records given to the logger) is held in `row` and `log`     *)
(* until the next step.  The locals `window` and `program` are dead once   *)
(* the cycle is over (line 233 assigns both before anything reads them),   *)
(* and every local is dead once an exception is on its way out of the try  *)
(* block; the step that makes a local dead clears it.                      *)
(***************************************************************************)
EXTENDS Integers, Sequences, FiniteSets, TLC

\* ------------------------------------------------------------------ bounds
MaxTime == 8
MaxDelay == 1
MaxCalls == 3

\* ------------------------------------------------------- program constants
Refresh == 1
CooldownPeriod == 5

\* ------------------------------------------------------------------ values
None == "None"

Windows == {"W1", "W2"}
Programs == {"P1", "Google Chrome"}
Urls == {"U1"}

OsNames == {"nt", "posix", "darwin"}

\* Python truthiness of an Optional[str]: None and "" are both false.
Truthy(x) == x # None /\ x # ""

VARIABLES
  os,            \* self._os, fixed by __init__
  pc,            \* position of the thread inside activate
  clock,         \* the wall clock read by now()
  started,       \* local `started`
  window,        \* local `window`  (the observation of the cycle)
  program,       \* local `program` (the observation of the cycle)
  url,           \* local `url`
  domain,        \* local `domain`
  self_window,   \* self._window
  self_program,  \* self._program
  self_url,      \* self._url
  self_domain,   \* self._domain
  row,           \* the call of self._csv.write the latest step made (its
                 \* arguments and its result), NoRow if it made none
  prev,          \* when `row` is a call: times and result of the call before it
  last,          \* times and result of the latest call of self._csv.write
  dropped,       \* `stopped` of the latest row the file lock dropped, or -1
  log,           \* the records the latest step logged, in order
  pending,       \* the exception in flight while the finally clause runs
  exit,          \* the exception that left activate, if any
  cycle,         \* the path the latest step took through the loop body:
                 \* nochange, suppressed, written, dropped (the file was
                 \* locked), failed (the write raised), fault (another call
                 \* raised); none if the step was not a poll cycle
  run,           \* number of times the inner loop was (re)entered
  focused,       \* a focus change was detected since the inner loop was entered
  resumed,       \* clock when the latest pause of the finally clause ended
  now_stop,      \* local `stopped` (line 244) of the latest step, -1 if the
                 \* step did not assign it
  lookup,        \* the argument of the URL lookup (lines 252-253) the latest
                 \* step made, None if it made none
  instances,     \* Neo._instances: maps a class to its registered object
  objects,       \* number of objects the constructors have returned so far
  calls,         \* per class: number of calls cls(...) made so far
  constructions, \* per class: number of times super().__call__ was run
  answers,       \* per class: the objects the calls returned so far
  returned       \* the latest call cls(...): its class and the object it
                 \* returned, 0 if it raised

vars == <<os, pc, clock, started, window, program, url, domain,
          self_window, self_program, self_url, self_domain,
          row, prev, last, dropped, log, pending, exit, cycle, run, focused,
          resumed, now_stop, lookup,
          instances, objects, calls, constructions, answers, returned>>

\* The state of activate and the state of the metaclass.
protocol == <<os, pc, clock, started, window, program, url, domain,
              self_window, self_program, self_url, self_domain,
              row, prev, last, dropped, log, pending, exit, cycle, run,
              focused, resumed, now_stop, lookup>>

neo == <<instances, objects, calls, constructions, answers, returned>>

tracker == <<self_window, self_program, self_url, self_domain>>

\* ---------------------------------------------------------------- exceptions
\* Subclasses of Exception that the calls of a cycle raise.
ExceptionTypes ==
  {"NameError", "AttributeError", "TypeError", "OSError", "PermissionError"}

KeyboardInterrupt == "KeyboardInterrupt"
SystemExit == "SystemExit"

\* A log record: its level and the line of protocols.py that logs it.
Record(level, line) == <<level, line>>

\* ---------------------------------------------------------- platform adapter
Optional(S) == S \cup {None}

\* What a call does: it returns a pair, returns a bare None, or raises.
Returns(v) == [kind |-> "return", value |-> v, error |-> None]
ReturnsNone == [kind |-> "none", value |-> <<None, None>>, error |-> None]
Raises(e) == [kind |-> "raise", value |-> <<None, None>>, error |-> e]

\* _get_active_window_on_nt: (window, program), either of them None; the
\* win32 names it calls are bound by imports local to __init__, which is the
\* NameError outcome.
ActiveWindowOnNt ==
  {Returns(<<w, p>>) : w \in Optional(Windows), p \in Optional(Programs)}
    \cup {Raises("NameError")}

\* _get_active_window_on_darwin: `pass`, so the call returns a bare None.
ActiveWindowOnDarwin == {ReturnsNone}

\* _get_active_window_on_posix: (None, None) while the window is loading,
\* else a (title, class) pair whose title may be the empty string; a
\* property xprop does not print makes re.search return None.
ActiveWindowOnPosix ==
  {Returns(<<None, None>>)}
    \cup {Returns(<<w, p>>) : w \in Windows \cup {""}, p \in Programs}
    \cup {Raises("AttributeError"), Raises("OSError")}

\* self._active_window.get(self._os, self._unknown_os)()
ActiveWindow(o) ==
  CASE o = "nt" -> ActiveWindowOnNt
    [] o = "posix" -> ActiveWindowOnPosix
    [] o = "darwin" -> ActiveWindowOnDarwin

\* The domain the regular expression of line 190 cuts out of a URL.
DomainOf(u) == IF u = "U1" THEN "D1" ELSE None

\* _get_active_url_on_nt.  kind "logged": the `except Exception` branch, which
\* logs the exception and returns (None, None).  ReturnsNone: the `pass`
\* branch, which falls off the end of the function.
ActiveUrlOnNt(prog) ==
  IF prog # "Google Chrome"
    THEN {Returns(<<None, None>>)}
    ELSE {Returns(<<u, DomainOf(u)>>) : u \in Urls}
           \cup {ReturnsNone, Raises("NameError"),
                 [kind |-> "logged", value |-> <<None, None>>, error |-> None]}

ActiveUrlOnDarwin(prog) == {Returns(<<None, None>>)}

ActiveUrlOnPosix(prog) == {Returns(<<None, None>>)}

\* self._active_url.get(self._os, self._unknown_url)(program)
ActiveUrl(o, prog) ==
  CASE o = "nt" -> ActiveUrlOnNt(prog)
    [] o = "posix" -> ActiveUrlOnPosix(prog)
    [] o = "darwin" -> ActiveUrlOnDarwin(prog)

\* What the adapter itself logged during a call with outcome r (line 197).
AdapterLog(r) ==
  IF r.kind = "logged" THEN <<Record("exception", 197)>> ELSE <<>>

\* `a, b = <call>`: a call that returned a bare None cannot be unpacked.
Unpack(r) == IF r.kind = "none" THEN Raises("TypeError") ELSE r

\* --------------------------------------------------- kaamiki.utils.common
\* seconds_to_datetime(seconds).split(":"): days, hours, minutes, seconds.
SecondsToDatetime(s) ==
  <<s \div 86400, (s % 86400) \div 3600, (s % 3600) \div 60, s % 60>>

\* CSVDataWriter.write: the row is appended, or the file is locked by another
\* program, or the write fails otherwise.
WriteResults == {"ok", "PermissionError", "OSError"}

\* ------------------------------------------------------------ the loop body
Delays == 0 .. MaxDelay

\* Mutant of IsFocusChange: the comparison with self._window is missing.
IsFocusChange_NoCompare(w, p) == Truthy(w) /\ Truthy(p)

\* Mutant of IsFocusChange: the test of `program` is missing.
IsFocusChange_NoProgram(w, p) == Truthy(w) /\ self_window # w

\* line 243
IsFocusChange(w, p) == Truthy(w) /\ Truthy(p) /\ self_window # w

\* Mutant of SecondsSpent: the operands of line 245 are swapped.
SecondsSpent_Swapped(stopped, begun) == begun - stopped

\* line 245
SecondsSpent(stopped, begun) == stopped - begun

\* Mutant of ShouldRecord: the block of lines 251-266 is never entered.
ShouldRecord_Never(seconds_spent) == FALSE

\* Mutant of ShouldRecord: the test of line 250 is missing.
ShouldRecord_Always(seconds_spent) == TRUE

\* line 250
ShouldRecord(seconds_spent) == seconds_spent # 0

\* Mutant of StartedOnEntry: started = now() sits above the outer loop, so
\* a restart keeps the value the failed run left.
StartedOnEntry_Once(t) == IF run = 0 THEN t ELSE started

\* line 231: started = now() on every entry of the inner loop
StartedOnEntry(t) == t

\* Mutant of StartedAfterWrite: line 266 is missing.
StartedAfterWrite_Kept(t) == started

\* line 266: started = now() after the write
StartedAfterWrite(t) == t

\* Mutant of RecordedFocus: lines 268-269 are missing.
RecordedFocus_Kept(w, p) == <<self_window, self_program>>

\* lines 268-269: self._window, self._program = the locals window, program
RecordedFocus(w, p) == <<w, p>>

\* Mutant of PendingUrl: lines 270-271 are missing.
PendingUrl_Kept(fetched) == <<self_url, self_domain>>

\* lines 270-271: self._url, self._domain = the locals url, domain
PendingUrl(fetched) == fetched

\* Mutant of HandledInCycle: the try statement of lines 254-265 is missing.
HandledInCycle_Nothing(e) == FALSE

\* line 264: the only exception the loop body handles itself
HandledInCycle(e) == e = "PermissionError"

\* Mutant of SupervisorCatches: `except OSError` instead of `except Exception`.
SupervisorCatches_OSError(e) == e \in {"OSError", "PermissionError"}

\* line 277: except Exception
SupervisorCatches(e) == e \in ExceptionTypes

\* lines 255-263: the arguments of self._csv.write
Row(stopped, seconds_spent, time_spent, result) ==
  [window |-> self_window, program |-> self_program,
   url |-> self_url, domain |-> self_domain,
   started |-> started, stopped |-> stopped, spent |-> seconds_spent,
   days |-> time_spent[1], hours |-> time_spent[2],
   minutes |-> time_spent[3], seconds |-> time_spent[4],
   result |-> result]

\* No call of self._csv.write.
NoRow ==
  [window |-> None, program |-> None, url |-> None, domain |-> None,
   started |-> 0, stopped |-> 0, spent |-> 0,
   days |-> 0, hours |-> 0, minutes |-> 0, seconds |-> 0, result |-> None]

\* The times and the result of a call of self._csv.write.
Timing(r) == [started |-> r.started, stopped |-> r.stopped, result |-> r.result]

\* -------------------------------------------------- the metaclass Neo
\* The classes of the repository whose metaclass is Neo.
NeoClasses == {"BabyMonitorProtocol", "LogFormatter", "ArchiveHandler"}

\* No call cls(...) was made yet.
NoCall == [cls |-> None, value |-> 0]

\* Mutant of Registered: the test of line 66 never finds the class.
Registered_Never(cls) == FALSE

\* logger.py line 66: cls in cls._instances
Registered(cls) == cls \in DOMAIN instances

\* logger.py line 67: cls._instances[cls] = obj
Register(cls, obj) ==
  [c \in DOMAIN instances \cup {cls} |->
     IF c = cls THEN obj ELSE instances[c]]

\* ------------------------------------------------------------------- Init
\* The object after __init__, before the activate property is read.
Init ==
  /\ os \in OsNames
  /\ pc = "idle"
  /\ clock = 0
  /\ started = 0
  /\ window = None /\ program = None /\ url = None /\ domain = None
  /\ self_window = None /\ self_program = None
  /\ self_url = None /\ self_domain = None
  /\ row = NoRow /\ prev = Timing(NoRow) /\ last = Timing(NoRow)
  /\ dropped = -1
  /\ log = <<>>
  /\ pending = None
  /\ exit = None
  /\ cycle = "none"
  /\ run = 0
  /\ focused = FALSE
  /\ resumed = 0
  /\ now_stop = -1
  /\ lookup = None
  /\ instances = <<>>
  /\ objects = 0
  /\ calls = [c \in NeoClasses |-> 0]
  /\ constructions = [c \in NeoClasses |-> 0]
  /\ answers = [c \in NeoClasses |-> {}]
  /\ returned = NoCall

\* The step calls self._csv.write with row r.
Hands(r) ==
  /\ row' = r
  /\ prev' = last
  /\ last' = Timing(r)
  /\ dropped' = IF r.result = "PermissionError" THEN r.stopped ELSE dropped

\* The step does not call self._csv.write.
HandsNothing ==
  /\ row' = NoRow
  /\ prev' = Timing(NoRow)
  /\ UNCHANGED <<last, dropped>>

\* The step is no poll cycle: it observes no window and writes no row.
NoCycle ==
  /\ window' = None /\ program' = None
  /\ now_stop' = -1 /\ lookup' = None
  /\ cycle' = "none"
  /\ HandsNothing

\* lines 223-225: the tracker state is set to None once, before the outer loop
Activate ==
  /\ pc = "idle"
  /\ self_window' = None /\ self_program' = None
  /\ self_url' = None /\ self_domain' = None
  /\ url' = None /\ domain' = None
  /\ log' = <<Record("info", 225)>>
  /\ pc' = "start"
  /\ NoCycle
  /\ UNCHANGED <<neo, os, clock, started, pending, exit, run, focused, resumed>>

\* line 231: entry of the try block and of the inner loop
Start ==
  /\ pc = "start"
  /\ started' = StartedOnEntry(clock)
  /\ run' = run + 1
  /\ focused' = FALSE
  /\ pc' = "poll"
  /\ log' = <<>>
  /\ NoCycle
  /\ UNCHANGED <<neo, os, clock, url, domain, tracker, pending, exit, resumed>>

\* lines 274-280: what the try statement does with an exception e raised in
\* its body at time t, after the body logged the records l and left u in
\* the locals `url` and `domain`.  `started` is dead from here on (line 231
\* assigns it on re-entry); `url` and `domain` stay live if the loop is
\* entered again.
Handle(e, t, l, u) ==
  /\ clock' = t
  /\ pc' = "finally"
  /\ started' = 0
  /\ IF e = KeyboardInterrupt
       THEN /\ log' = Append(l, Record("warning", 275))
            /\ pending' = SystemExit
            /\ url' = None /\ domain' = None
       ELSE IF SupervisorCatches(e)
         THEN /\ log' = Append(l, Record("exception", 278))
              /\ pending' = None
              /\ url' = u[1] /\ domain' = u[2]
         ELSE /\ log' = l
              /\ pending' = e
              /\ url' = None /\ domain' = None

\* line 233 raises: the adapter fails, or its result cannot be unpacked
PollFault ==
  /\ pc = "poll"
  /\ \E o \in ActiveWindow(os), d \in Delays :
       /\ Unpack(o).kind = "raise"
       /\ clock + d <= MaxTime
       /\ Handle(Unpack(o).error, clock + d, <<>>, <<url, domain>>)
  /\ window' = None /\ program' = None
  /\ now_stop' = -1 /\ lookup' = None
  /\ cycle' = "fault"
  /\ HandsNothing
  /\ UNCHANGED <<neo, os, tracker, exit, run, focused, resumed>>

\* lines 233-243: the condition of line 243 is false
PollNoChange ==
  /\ pc = "poll"
  /\ \E o \in ActiveWindow(os), d \in Delays :
       /\ Unpack(o).kind = "return"
       /\ clock + d <= MaxTime
       /\ ~IsFocusChange(o.value[1], o.value[2])
       /\ window' = o.value[1] /\ program' = o.value[2]
       /\ clock' = clock + d
  /\ now_stop' = -1 /\ lookup' = None
  /\ cycle' = "nochange"
  /\ pc' = "sleep"
  /\ log' = <<>>
  /\ HandsNothing
  /\ UNCHANGED <<neo, os, started, url, domain, tracker, pending, exit, run,
                 focused, resumed>>

\* lines 233-250, 268-271: a focus change with seconds_spent == 0
PollSuppressed ==
  /\ pc = "poll"
  /\ \E o \in ActiveWindow(os), d \in Delays :
       /\ Unpack(o).kind = "return"
       /\ clock + d <= MaxTime
       /\ IsFocusChange(o.value[1], o.value[2])
       /\ ~ShouldRecord(SecondsSpent(clock + d, started))
       /\ window' = o.value[1] /\ program' = o.value[2]
       /\ self_window' = RecordedFocus(o.value[1], o.value[2])[1]
       /\ self_program' = RecordedFocus(o.value[1], o.value[2])[2]
       /\ now_stop' = clock + d
       /\ clock' = clock + d
  /\ self_url' = PendingUrl(<<url, domain>>)[1]
  /\ self_domain' = PendingUrl(<<url, domain>>)[2]
  /\ focused' = TRUE
  /\ lookup' = None
  /\ cycle' = "suppressed"
  /\ pc' = "sleep"
  /\ log' = <<>>
  /\ HandsNothing
  /\ UNCHANGED <<neo, os, started, url, domain, pending, exit, run, resumed>>

\* lines 233-271: a focus change with seconds_spent != 0 whose row is written,
\* or dropped because the file is locked
PollRecord ==
  /\ pc = "poll"
  /\ \E o \in ActiveWindow(os), d1 \in Delays, d2 \in Delays :
       LET stopped == clock + d1
           seconds_spent == SecondsSpent(stopped, started)
           time_spent == SecondsToDatetime(seconds_spent)
       IN /\ Unpack(o).kind = "return"
          /\ stopped + d2 <= MaxTime
          /\ IsFocusChange(o.value[1], o.value[2])
          /\ ShouldRecord(seconds_spent)
          /\ \E u \in ActiveUrl(os, o.value[2]), r \in WriteResults :
               /\ Unpack(u).kind \in {"return", "logged"}
               /\ r = "ok" \/ HandledInCycle(r)
               /\ url' = u.value[1] /\ domain' = u.value[2]
               /\ self_url' = PendingUrl(u.value)[1]
               /\ self_domain' = PendingUrl(u.value)[2]
               /\ Hands(Row(stopped, seconds_spent, time_spent, r))
               /\ log' = IF r = "ok" THEN AdapterLog(u)
                         ELSE Append(AdapterLog(u), Record("error", 265))
               /\ cycle' = IF r = "ok" THEN "written" ELSE "dropped"
          /\ window' = o.value[1] /\ program' = o.value[2]
          /\ self_window' = RecordedFocus(o.value[1], o.value[2])[1]
          /\ self_program' = RecordedFocus(o.value[1], o.value[2])[2]
          /\ now_stop' = stopped
          /\ lookup' = o.value[2]
          /\ started' = StartedAfterWrite(stopped + d2)
          /\ clock' = stopped + d2
  /\ focused' = TRUE
  /\ pc' = "sleep"
  /\ UNCHANGED <<neo, os, pending, exit, run, resumed>>

\* lines 252-263 raise: the URL lookup fails, or the write fails with an
\* exception the loop body does not handle
PollRecordFault ==
  /\ pc = "poll"
  /\ \E o \in ActiveWindow(os), d1 \in Delays, d2 \in Delays :
       LET stopped == clock + d1
           seconds_spent == SecondsSpent(stopped, started)
           time_spent == SecondsToDatetime(seconds_spent)
       IN /\ Unpack(o).kind = "return"
          /\ stopped + d2 <= MaxTime
          /\ IsFocusChange(o.value[1], o.value[2])
          /\ ShouldRecord(seconds_spent)
          /\ window' = o.value[1] /\ program' = o.value[2]
          /\ now_stop' = stopped
          /\ lookup' = o.value[2]
          /\ \/ \* lines 252-253
                \E u \in ActiveUrl(os, o.value[2]) :
                  /\ Unpack(u).kind = "raise"
                  /\ Handle(Unpack(u).error, stopped + d2, <<>>,
                            <<url, domain>>)
                  /\ cycle' = "fault"
                  /\ HandsNothing
             \/ \* lines 255-263
                \E u \in ActiveUrl(os, o.value[2]), r \in WriteResults :
                  /\ Unpack(u).kind \in {"return", "logged"}
                  /\ r # "ok" /\ ~HandledInCycle(r)
                  /\ Hands(Row(stopped, seconds_spent, time_spent, r))
                  /\ cycle' = "failed"
                  /\ Handle(r, stopped + d2, AdapterLog(u), u.value)
  /\ focused' = TRUE
  /\ UNCHANGED <<neo, os, tracker, exit, run, resumed>>

\* line 273
Sleep ==
  /\ pc = "sleep"
  /\ clock + Refresh <= MaxTime
  /\ clock' = clock + Refresh
  /\ pc' = "poll"
  /\ log' = <<>>
  /\ NoCycle
  /\ UNCHANGED <<neo, os, started, url, domain, tracker, pending, exit, run,
                 focused, resumed>>

\* lines 274-276: KeyboardInterrupt raised inside the try block
Interrupt ==
  /\ pc \in {"start", "poll", "sleep"}
  /\ Handle(KeyboardInterrupt, clock, <<>>, <<url, domain>>)
  /\ NoCycle
  /\ UNCHANGED <<neo, os, tracker, exit, run, focused, resumed>>

\* Mutant of Resume: the except clause ends with `break`, so activate
\* returns after the pause.
Resume_Returns ==
  /\ pc = "finally" /\ pending = None
  /\ clock + CooldownPeriod <= MaxTime
  /\ clock' = clock + CooldownPeriod
  /\ pc' = "exited"
  /\ log' = <<>>
  /\ NoCycle
  /\ UNCHANGED <<neo, os, started, url, domain, tracker, pending, exit, run,
                 focused, resumed>>

\* line 280 after a caught exception: the pause ends and the outer loop
\* enters the try block again
Resume ==
  /\ pc = "finally" /\ pending = None
  /\ clock + CooldownPeriod <= MaxTime
  /\ clock' = clock + CooldownPeriod
  /\ resumed' = clock + CooldownPeriod
  /\ pc' = "start"
  /\ log' = <<>>
  /\ NoCycle
  /\ UNCHANGED <<neo, os, started, url, domain, tracker, pending, exit, run,
                 focused>>

\* line 280 with an exception in flight (the SystemExit of line 276): the
\* pause ends and the exception leaves activate
Leave ==
  /\ pc = "finally" /\ pending # None
  /\ clock + CooldownPeriod <= MaxTime
  /\ clock' = clock + CooldownPeriod
  /\ exit' = pending
  /\ pending' = None
  /\ pc' = "exited"
  /\ log' = <<>>
  /\ NoCycle
  /\ UNCHANGED <<neo, os, started, url, domain, tracker, run, focused, resumed>>

\* line 280: KeyboardInterrupt raised inside time.sleep(5.0) of the finally
\* clause, which no except clause covers
InterruptFinally ==
  /\ pc = "finally"
  /\ exit' = KeyboardInterrupt
  /\ pending' = None
  /\ pc' = "exited"
  /\ log' = <<>>
  /\ NoCycle
  /\ UNCHANGED <<neo, os, clock, started, url, domain, tracker, run, focused,
                 resumed>>

\* logger.py lines 66-68: cls(...) while cls is not registered; the
\* constructor returns a new object, which is registered and returned
CallConstructs ==
  \E cls \in NeoClasses :
    /\ calls[cls] < MaxCalls
    /\ ~Registered(cls)
    /\ objects' = objects + 1
    /\ instances' = Register(cls, objects + 1)
    /\ calls' = [calls EXCEPT ![cls] = @ + 1]
    /\ constructions' = [constructions EXCEPT ![cls] = @ + 1]
    /\ answers' = [answers EXCEPT ![cls] = @ \cup {instances'[cls]}]
    /\ returned' = [cls |-> cls, value |-> instances'[cls]]
    /\ UNCHANGED protocol

\* logger.py lines 66-67: cls(...) while cls is not registered; the
\* constructor raises, and the exception leaves __call__ before the
\* assignment of line 67
CallRaises ==
  \E cls \in NeoClasses :
    /\ calls[cls] < MaxCalls
    /\ ~Registered(cls)
    /\ calls' = [calls EXCEPT ![cls] = @ + 1]
    /\ constructions' = [constructions EXCEPT ![cls] = @ + 1]
    /\ returned' = [cls |-> cls, value |-> 0]
    /\ UNCHANGED <<instances, objects, answers>>
    /\ UNCHANGED protocol

\* logger.py lines 66, 68: cls(...) while cls is registered
CallReturnsRegistered ==
  \E cls \in NeoClasses :
    /\ calls[cls] < MaxCalls
    /\ Registered(cls)
    /\ calls' = [calls EXCEPT ![cls] = @ + 1]
    /\ answers' = [answers EXCEPT ![cls] = @ \cup {instances[cls]}]
    /\ returned' = [cls |-> cls, value |-> instances[cls]]
    /\ UNCHANGED <<instances, objects, constructions>>
    /\ UNCHANGED protocol

\* Sequential instantiations of the classes whose metaclass is Neo.
NeoNext ==
  \/ CallConstructs
  \/ CallRaises
  \/ CallReturnsRegistered

NeoSpec == Init /\ [][NeoNext]_vars

Next ==
  \/ Activate
  \/ Start
  \/ PollFault
  \/ PollNoChange
  \/ PollSuppressed
  \/ PollRecord
  \/ PollRecordFault
  \/ Sleep
  \/ Interrupt
  \/ Resume
  \/ Leave
  \/ InterruptFinally

Spec == Init /\ [][Next]_vars

\* The steps of the thread itself: every action but the user's interrupt and
\* the exit that follows it.
Uninterrupted ==
  \/ Activate
  \/ Start
  \/ PollFault
  \/ PollNoChange
  \/ PollSuppressed
  \/ PollRecord
  \/ PollRecordFault
  \/ Sleep
  \/ Resume

\* The daemon while nobody interrupts it.  The thread is the only one of the
\* process and is always scheduled: whenever it can take a step, it does.
FairSpec == Init /\ [][Uninterrupted]_vars /\ WF_vars(Uninterrupted)

\* The exit status of the process.
ExitStatus == IF exit = SystemExit THEN 0 ELSE 1

\* The supervisor states of the design.
Running == pc \in {"start", "poll", "sleep"}
Cooldown == pc = "finally" /\ pending = None
Terminated == pc = "exited"

\* ===================================================================
\* Properties
\* ===================================================================

\* The step is a poll cycle.
Polls == cycle' # "none"

\* The step hands a row to self._csv.write (whatever the call's result).
HandsRow == cycle' \in {"written", "dropped", "failed"}

AllEmpty ==
  /\ self_window = None /\ self_program = None
  /\ self_url = None /\ self_domain = None

\* The records of l that line 278 logged.
Diagnostics(l) == {i \in DOMAIN l : l[i] = Record("exception", 278)}

\* C1 (no duplicate focus): a row is handed to the recorder only in a cycle
\* whose observation has a non-empty window and a non-empty program and a
\* window that differs from the recorded self._window; a cycle that observes
\* the recorded window again hands over nothing.
C1_NoDuplicateFocus ==
  [][/\ row' # NoRow => HandsRow
     /\ HandsRow =>
          Truthy(window') /\ Truthy(program') /\ window' # self_window]_vars

\* C1 witness: after a row had been written, a cycle observed the recorded
\* window again and left the recorder alone.
C1_Witness ==
  /\ pc = "sleep" /\ cycle = "nochange" /\ row = NoRow
  /\ Truthy(window) /\ Truthy(program) /\ window = self_window
  /\ last.result = "ok"

\* C2 (non-overlap): the row handed to the recorder starts no earlier than
\* the row handed over before it stopped, whether that one was written,
\* dropped by the file lock or handed over before a restart.
C2_NonOverlap ==
  [][HandsRow /\ last.result # None => last.stopped <= row'.started]_vars

\* C2 witness: a row written after a restart, the row before it handed over
\* before the fault.
C2_Witness ==
  /\ run > 1 /\ cycle = "written" /\ prev.result # None
  /\ prev.stopped < resumed /\ row.started >= resumed

\* C3 (zero-duration suppression), as claimed: the first focus change the
\* inner loop detects after it is entered hands no row to the recorder.
C3_FirstFocusNeverRecorded ==
  [][Polls /\ ~focused /\ focused' => ~HandsRow]_vars

\* C4 (restart resets state), as claimed: when the inner loop is entered
\* again after a fault, self._window, self._program, self._url and
\* self._domain are all None.
C4_RestartResetsState ==
  [][pc = "start" /\ pc' = "poll" /\ run' > 1 => AllEmpty']_vars

\* C5 (restart takes a fresh start time): a row handed to the recorder after
\* a restart has a `started` that is not earlier than the end of the pause.
C5_StartedAfterCooldown ==
  run > 1 /\ row # NoRow => row.started >= resumed

\* C5 witness: a row was written after a restart.
C5_Witness ==
  run > 1 /\ resumed > 0 /\ cycle = "written" /\ row.result = "ok"

\* C6 (contention tolerance): a write that raises PermissionError is logged
\* as an error and the cycle goes on to the sleep of the same run, with no
\* exception handed to the supervisor; and every row handed to the recorder
\* after a dropped one starts no earlier than the dropped one stopped, so a
\* dropped row is never written later.
C6_ContentionTolerance ==
  [][/\ HandsRow /\ row'.result = "PermissionError" =>
          /\ pc' = "sleep" /\ pending' = None /\ run' = run
          /\ log'[Len(log')] = Record("error", 265)
          /\ Diagnostics(log') = {}
          /\ dropped' = row'.stopped
     /\ HandsRow /\ dropped # -1 => row'.started >= dropped]_vars

\* C6 witness: a row was dropped by the file lock and, in the same run, the
\* next focus change wrote its row.
C6_Witness ==
  /\ pc = "sleep" /\ cycle = "written" /\ row.result = "ok"
  /\ prev.result = "PermissionError" /\ prev.stopped = dropped
  /\ prev.started >= resumed /\ row.started >= dropped

\* C7 (the supervisor never lets a fault out): no exception other than the
\* SystemExit of line 276 is ever in flight past the except clauses, and
\* activate is left only by that SystemExit or by a KeyboardInterrupt.
C7_OnlyCancellationLeaves ==
  /\ pending \in {None, SystemExit}
  /\ exit \in {None, SystemExit, KeyboardInterrupt}
  /\ pc = "exited" => exit # None

\* C7 witness: the write raised an exception the loop body does not handle
\* and the supervisor caught it.
C7_Witness == Cooldown /\ cycle = "failed" /\ Diagnostics(log) # {}

\* C8 (cancellation skips the cooldown), as claimed: once the interrupt is
\* caught, the SystemExit of line 276 leaves activate without the pause of
\* the finally clause being taken.
C8_CancellationSkipsCooldown ==
  [][pending = SystemExit /\ exit' = SystemExit => clock' = clock]_vars

\* C9 (cancellation always exits cleanly), as claimed: whenever activate is
\* left, it is left by SystemExit(0), never by an uncaught exception.
C9_CancellationAlwaysClean ==
  pc = "exited" => exit = SystemExit /\ ExitStatus = 0

\* C10 (the daemon never stays down): a cycle that faults logs exactly one
\* diagnostic at line 278 and enters the pause; the pause lasts
\* CooldownPeriod, polls nothing and ends at the entry of the inner loop;
\* and while nobody interrupts, the pause of run n, when it fits the time
\* horizon, is followed by a poll of the adapter in run n + 1.
C10_NeverStaysDown ==
  /\ [][Polls /\ cycle' \in {"fault", "failed"} =>
          Cooldown' /\ Cardinality(Diagnostics(log')) = 1]_vars
  /\ [][Cooldown =>
          /\ pc' = "start" /\ clock' = clock + CooldownPeriod
          /\ ~Polls /\ log' = <<>>]_vars
  /\ \A n \in 1 .. (MaxTime \div CooldownPeriod) :
        (Cooldown /\ clock + CooldownPeriod <= MaxTime /\ run = n)
          ~> (cycle # "none" /\ run = n + 1)

\* C10 witness: after a fault and its pause, the adapter was polled again.
C10_Witness == run > 1 /\ resumed > 0 /\ pc = "sleep" /\ cycle # "none"

\* C11 (strictly increasing order): the row handed to the recorder starts
\* later and stops later than the row handed over before it, whether that
\* one was written, dropped by the file lock or handed over before a restart;
\* a step hands over at most one row.
C11_StrictlyIncreasing ==
  [][HandsRow /\ last.result # None =>
       last.started < row'.started /\ last.stopped < row'.stopped]_vars

\* C11 witness: in one run, a row was dropped by the file lock and the next
\* row handed over starts no earlier than the dropped one stopped.
C11_Witness ==
  /\ cycle \in {"written", "dropped", "failed"}
  /\ prev.result = "PermissionError" /\ prev.started >= resumed
  /\ row.started >= prev.stopped /\ row.started < row.stopped

\* C12 (interval arithmetic): every row handed to the recorder has
\* stopped >= started, spent = stopped - started and spent >= 0; the
\* recorder is called only when spent is not 0.
C12_SpentIsDifference ==
  cycle \in {"written", "dropped", "failed"} =>
    /\ row.stopped >= row.started
    /\ row.spent = row.stopped - row.started
    /\ row.spent >= 0 /\ row.spent # 0
    /\ row.stopped = now_stop

\* C12 witness: a row that spans more than one tick was written.
C12_Witness ==
  cycle = "written" /\ row.result = "ok" /\ row.spent > 1

\* C13 (capability gap is not fatal), as claimed: on the platform whose
\* adapter is not implemented, every poll cycle observes the empty pair and
\* goes on to the sleep; no cycle faults, the pause of the finally clause is
\* never entered, line 278 logs nothing and no row is handed to the recorder.
C13_CapabilityGapNonFatal ==
  os = "darwin" =>
    /\ ~Cooldown
    /\ Diagnostics(log) = {}
    /\ row = NoRow
    /\ cycle # "none" =>
         cycle = "nochange" /\ pc = "sleep" /\ window = None /\ program = None

\* C14 (Neo singleton), as claimed: every call of a class returns the same
\* object, the constructor runs only for the first call of the class, and a
\* registered instance is never replaced.
C14_ConstructorOnlyOnFirstCall ==
  [][\A c \in NeoClasses :
       /\ constructions'[c] # constructions[c] => calls[c] = 0
       /\ Cardinality(answers'[c]) <= 1
       /\ c \in DOMAIN instances =>
            c \in DOMAIN instances' /\ instances'[c] = instances[c]]_vars

\* C14, amended: every call of a class that returns, returns the same
\* object; the constructor runs only in calls made before the first call
\* that returned (each earlier call raised), so it returns at most once; and
\* a registered instance is never replaced.
C14_NeoSingleton ==
  [][\A c \in NeoClasses :
       /\ constructions'[c] # constructions[c] =>
            answers[c] = {} /\ c \notin DOMAIN instances
       /\ Cardinality(answers'[c]) <= 1
       /\ c \in DOMAIN instances =>
            c \in DOMAIN instances' /\ instances'[c] = instances[c]]_vars

\* C14 witness: the first call of a class raised, the second constructed
\* the instance and the third returned it again, while another class has an
\* instance of its own.
C14_Witness ==
  \E c \in NeoClasses, d \in NeoClasses :
    /\ c # d /\ d \in DOMAIN instances
    /\ calls[c] = 3 /\ constructions[c] = 2
    /\ returned = [cls |-> c, value |-> instances[c]]
    /\ answers[c] = {instances[c]} /\ instances[c] # instances[d]

\* C15 (frame of a no-change cycle): a poll cycle whose adapter call returned
\* an observation with an empty window or an empty program, or with the
\* recorded window, leaves self._window, self._program, self._url,
\* self._domain and `started` (and the locals `url` and `domain`) as they
\* were, makes no URL lookup, hands no row to the recorder and goes on to the
\* sleep.
C15_NoChangeFrame ==
  [][(/\ Polls /\ cycle' # "fault"
      /\ ~Truthy(window') \/ ~Truthy(program') \/ window' = self_window)
       => (/\ UNCHANGED <<tracker, started, url, domain>>
           /\ lookup' = None /\ now_stop' = -1
           /\ ~HandsRow /\ row' = NoRow
           /\ pc' = "sleep")]_vars

\* C15 witness: with a focus recorded, a cycle observed another window whose
\* program is empty and changed nothing.
C15_Witness ==
  /\ pc = "sleep" /\ cycle = "nochange" /\ lookup = None
  /\ Truthy(self_window) /\ Truthy(window) /\ window # self_window
  /\ ~Truthy(program)

\* The step is a poll cycle that detects a focus change (line 243).
DetectsFocus ==
  Polls /\ Truthy(window') /\ Truthy(program') /\ window' # self_window

\* C16 (the URL lookup uses the closing program), as claimed: the URL lookup
\* is called with the recorded self._program, the program of the interval
\* that is closing.
C16_LookupUsesClosingProgram ==
  [][lookup' # None => lookup' = self_program]_vars

C18_LookupOncePerClose ==
  [][/\ lookup' # None <=> (DetectsFocus /\ now_stop' - started # 0)
     /\ HandsRow => lookup' # None]_vars

\* C18 witness: a focus change with seconds_spent = 0 made no lookup after
\* an earlier one had made one.
C18_Witness ==
  /\ cycle = "suppressed" /\ lookup = None /\ last.result = "ok"
  /\ now_stop = started

\* C19 (the interval starts at the detection time), as claimed: a cycle that
\* detects a focus change leaves `started` equal to the `stopped` it read at
\* line 244, and a row handed to the recorder starts exactly when the row
\* before it in the same run stopped.
C19_StartIsDetectionTime ==
  /\ [][DetectsFocus /\ pc' = "sleep" => started' = now_stop']_vars
  /\ [][HandsRow /\ last.result # None /\ last.started >= resumed =>
          row'.started = last.stopped]_vars

\* C20 (no null rows), as claimed: every row handed to the recorder has a
\* non-empty window and a non-empty program.
C20_NoNullRows ==
  cycle \in {"written", "dropped", "failed"} =>
    Truthy(row.window) /\ Truthy(row.program)

\* C21 (a focus change is a change of window or of program), as claimed: a
\* poll cycle whose observation has a non-empty window and a non-empty
\* program and differs from the recorded pair in the window or in the program
\* takes the branch of line 243; and between two cycles self._program is the
\* program of the observation the cycle made, when that one is non-empty.
C21_ChangeOfWindowOrProgram ==
  /\ [][(/\ Polls /\ Truthy(window') /\ Truthy(program')
         /\ window' # self_window \/ program' # self_program)
          => cycle' # "nochange"]_vars
  /\ [](pc = "sleep" /\ Truthy(window) /\ Truthy(program) =>
          self_program = program)

\* C22 (the state advances after a dropped row): a cycle whose write raised
\* PermissionError leaves self._window and self._program equal to the
\* observed pair, self._url and self._domain equal to the URL observation
\* it fetched and `started` re-read after the write, not earlier than the
\* dropped row stopped, exactly as a cycle whose write succeeded; and the row
\* handed to the recorder next starts no earlier than the dropped row
\* stopped.
C22_StateAdvancesAfterContention ==
  /\ [][HandsRow /\ row'.result \in {"ok", "PermissionError"} =>
          /\ self_window' = window' /\ self_program' = program'
          /\ self_url' = url' /\ self_domain' = domain'
          /\ started' = clock' /\ started' >= row'.stopped
          /\ pc' = "sleep"]_vars
  /\ [][HandsRow /\ last.result = "PermissionError" =>
          /\ row'.started >= last.stopped
          /\ row'.spent <= row'.stopped - last.stopped]_vars

\* C22 witness: the row of the first focus was dropped by the file lock and
\* the tracker holds the new focus, the URL just fetched and a fresh start.
C22_Witness ==
  /\ pc = "sleep" /\ cycle = "dropped" /\ row.result = "PermissionError"
  /\ Truthy(window) /\ self_window = window /\ self_program = program
  /\ self_url = "U1" /\ row.url = None
  /\ started > row.stopped

====
